---- MODULE Spec2Model ----
(***************************************************************************)
(* A model of the JustiFi add-ons for Odoo: payment_justifi (provider     *)
(* REST client, transaction processing, complete/webhook controller) and  *)
(* pos_payment_justifi (terminal pay / cancel / status).                  *)
(*                                                                         *)
(* Conventions                                                             *)
(*  - Python dicts are functions with a string domain; d.get(k, default)   *)
(*    is Get(d, k, default).  The empty string "" stands for every falsy   *)
(*    scalar (None, False, '').                                            *)
(*  - The vendor keeps to its JSON schema: a response body is a JSON       *)
(*    object and its fields have their documented types.  What varies is   *)
(*    network failure, the HTTP status code and which fields are present.  *)
(*  - Each handler is one action.  http, calls, req and result describe    *)
(*    the handler that ran last: the HTTP exchanges it made, the           *)
(*    transaction methods it invoked, its input and its response.          *)
(***************************************************************************)
EXTENDS Integers, Sequences, FiniteSets, TLC

VARIABLES
  provider,     \* the payment.provider record of code 'justifi'
  tx,           \* payment.transaction records: id -> [state, provider_reference]
  checkouts,    \* vendor side: descriptions of the checkouts issued so far
  terminalActions, \* vendor side: the terminal pay actions accepted so far
  uuids,        \* how many UUIDs uuid.uuid4() has generated
  payKeys,      \* the Idempotency-Key of every terminal-pay request sent so far
  posOutcome,   \* per POS order, how its payment requests ended so far
  postProcessed, \* the transactions _post_process has been invoked on
  http,         \* HTTP exchanges of the last handler: <<[request, response]>>
  calls,        \* transaction methods invoked by the last handler
  req,          \* input of the last handler
  result        \* response (and exception raised inside) of the last handler

vars == <<provider, tx, checkouts, terminalActions, uuids, payKeys, posOutcome,
         postProcessed, http, calls, req, result>>

(***************************************************************************)
(* Bounds                                                                  *)
(***************************************************************************)
NumTx == 1
MaxCheckouts == 2
MaxUuid == 2
NumOrders == 1

TxIds == 1..NumTx

(***************************************************************************)
(* Identifiers issued by the vendor (opaque strings cho_..., py_...).      *)
(***************************************************************************)
CheckoutIdNames == <<"cho_1", "cho_2", "cho_3", "cho_4", "cho_5", "cho_6">>
PaymentIdNames == <<"py_1", "py_2", "py_3", "py_4", "py_5", "py_6">>
CheckoutIds == {CheckoutIdNames[n] : n \in 1..MaxCheckouts}
PaymentIds == {PaymentIdNames[n] : n \in 1..MaxCheckouts}
UuidNames == <<"uuid_1", "uuid_2", "uuid_3", "uuid_4", "uuid_5", "uuid_6">>
Tokens == {"tok_a", "tok_b"}
\* POS order references; 0 stands for no order (None)
Orders == 1..NumOrders
\* the vendor's payment for a checkout
PaymentOf(checkout_id) ==
  PaymentIdNames[CHOOSE n \in 1..Len(CheckoutIdNames) : CheckoutIdNames[n] = checkout_id]

(***************************************************************************)
(* Python dict helpers                                                     *)
(***************************************************************************)
EmptyDict == [k \in {} |-> ""]
Get(d, k, default) == IF k \in DOMAIN d THEN d[k] ELSE default
Put(d, k, v) == [x \in (DOMAIN d) \cup {k} |-> IF x = k THEN v ELSE d[x]]
\* a or b, on scalars
Or(a, b) == IF a # "" THEN a ELSE b
\* the dicts made of d and, optionally, key k with a value of vals
WithOptional(d, k, vals) == {d} \cup {Put(d, k, v) : v \in vals}

\* a faulty table: 'created' is missing from it
STATUS_MAPPING_WithoutCreated ==
  [completed |-> "done",
   succeeded |-> "done",
   pending |-> "pending",
   failed |-> "error",
   canceled |-> "cancel"]

\* const.py: STATUS_MAPPING
STATUS_MAPPING ==
  [completed |-> "done",
   succeeded |-> "done",
   pending |-> "pending",
   created |-> "pending",
   failed |-> "error",
   canceled |-> "cancel"]

(***************************************************************************)
(* HTTP.  A response with status_code 0 stands for requests raising a      *)
(* RequestException (no response).                                         *)
(***************************************************************************)
\* the value of a JSON null: no dict, so that a .get or an item assignment on
\* it raises
None == [NoneType |-> "None"]
Response(code, body) == [status_code |-> code, json |-> body]
NetworkError == Response(0, EmptyDict)
Exchange(request, response) == <<[request |-> request, response |-> response]>>

\* the outcome of a call: a returned value, or a raised exception (a message
\* is the sequence of the parts it is formatted from)
Return(v, exchanges) ==
  [ok |-> TRUE, value |-> v, exc |-> "", message |-> <<>>, http |-> exchanges]
Raise(type, msg, exchanges) ==
  [ok |-> FALSE, value |-> "", exc |-> type, message |-> msg, http |-> exchanges]
\* data.get('data', data)
Unwrap(data) == Get(data, "data", data)
\* the message of a vendor error body, or the default
ErrorMessage(body, default) ==
  IF "error" \in DOMAIN body /\ "message" \in DOMAIN body["error"]
  THEN body["error"]["message"] ELSE default

\* what the vendor may answer to POST /oauth/token
TokenResponses ==
  {NetworkError, Response(401, EmptyDict), Response(200, EmptyDict),
   Response(201, [access_token |-> "tok_a"])}
  \cup {Response(200, [access_token |-> t]) : t \in Tokens}
\* what the vendor may answer to POST /v1/checkouts when it would issue id
CreateCheckoutResponses(id) ==
  {NetworkError, Response(400, EmptyDict),
   Response(422, [error |-> [message |-> "Invalid amount"]]),
   Response(201, [data |-> [status |-> "created"]]),
   Response(201, [data |-> [id |-> id, status |-> "created"]]),
   Response(200, [id |-> id, status |-> "created"])}
\* the checkout statuses the vendor may report: the known ones, an unknown
\* one, the empty one
VendorStatuses == (DOMAIN STATUS_MAPPING) \cup {"requires_action", ""}
\* the checkout objects the vendor may report for checkout id: with or without
\* a status, and a paid one with or without the id of its payment
CheckoutObjects(id) ==
  UNION {IF Get(c, "status", "") \in {"completed", "succeeded"}
         THEN WithOptional(c, "successful_payment_id", {PaymentOf(id)})
         ELSE {c} :
         c \in WithOptional([id |-> id], "status", VendorStatuses)}
\* what the vendor may answer to GET /v1/checkouts/{id}
GetCheckoutResponses(id) ==
  {NetworkError, Response(404, EmptyDict)}
  \cup {Response(200, [data |-> c]) : c \in CheckoutObjects(id)}
\* an answer to GET /v1/checkouts/{id} whose data is null
NullCheckoutResponse == Response(200, [data |-> None])
\* what the vendor may answer to POST /v1/web_component_tokens
WebComponentTokenResponses ==
  {NetworkError, Response(403, EmptyDict), Response(200, EmptyDict),
   Response(201, [access_token |-> "wct_1"]),
   Response(200, [access_token |-> "wct_1"])}
\* the responses to choose from for a request made only if `before` returned
ResponsesAfter(before, responses) == IF before.ok THEN responses ELSE {NetworkError}

\* a faulty token exchange: any answer carrying an access_token is taken,
\* whatever its status
_justifi_get_access_token_AnyStatus(p, response) ==
  IF p.justifi_client_id = "" \/ p.justifi_client_secret = ""
  THEN Raise("ValidationError", <<"JustiFi Client ID and Client Secret are required.">>, <<>>)
  ELSE
    LET request ==
          [method |-> "POST", url |-> <<"OAUTH_TOKEN_URL">>,
           headers |-> ("Content-Type" :> "application/json"),
           json |-> [client_id |-> p.justifi_client_id,
                     client_secret |-> p.justifi_client_secret]]
        sent == Exchange(request, response)
        access_token == Get(response.json, "access_token", "")
    IN IF response.status_code = 0
       THEN Raise("ValidationError", <<"Could not connect to JustiFi. Please try again later.">>, sent)
       ELSE IF access_token = ""
       THEN Raise("ValidationError", <<"JustiFi authentication failed. No access token received.">>, sent)
       ELSE Return(access_token, sent)

\* payment_provider.py: PaymentProvider._justifi_get_access_token
_justifi_get_access_token(p, response) ==
  IF p.justifi_client_id = "" \/ p.justifi_client_secret = ""
  THEN Raise("ValidationError", <<"JustiFi Client ID and Client Secret are required.">>, <<>>)
  ELSE
    LET request ==
          [method |-> "POST", url |-> <<"OAUTH_TOKEN_URL">>,
           headers |-> ("Content-Type" :> "application/json"),
           json |-> [client_id |-> p.justifi_client_id,
                     client_secret |-> p.justifi_client_secret]]
        sent == Exchange(request, response)
        access_token == Get(response.json, "access_token", "")
    IN IF response.status_code = 0
       THEN Raise("ValidationError", <<"Could not connect to JustiFi. Please try again later.">>, sent)
       ELSE IF response.status_code # 200
       THEN Raise("ValidationError", <<"JustiFi authentication failed. Please check your credentials.">>, sent)
       ELSE IF access_token = ""
       THEN Raise("ValidationError", <<"JustiFi authentication failed. No access token received.">>, sent)
       ELSE Return(access_token, sent)

\* payment_provider.py: PaymentProvider._justifi_create_checkout
\* (amount, currency and origin_url, which nothing reads back, are left out)
_justifi_create_checkout(p, description, tokenResponse, response) ==
  LET token == _justifi_get_access_token(p, tokenResponse) IN
  IF ~token.ok THEN token
  ELSE IF p.justifi_account_id = ""
  THEN Raise("ValidationError", <<"JustiFi Sub-Account ID is required.">>, token.http)
  ELSE
    LET request ==
          [method |-> "POST", url |-> <<"CHECKOUTS_URL">>,
           headers |-> ("Authorization" :> <<"Bearer", token.value>>)
                       @@ ("Content-Type" :> "application/json")
                       @@ ("Sub-Account" :> p.justifi_account_id),
           json |-> [description |-> description]]
        sent == token.http \o Exchange(request, response)
        checkout == Unwrap(response.json)
    IN IF response.status_code = 0
       THEN Raise("ValidationError", <<"Could not connect to JustiFi. Please try again later.">>, sent)
       ELSE IF response.status_code >= 400
       THEN Raise("ValidationError",
                  <<"JustiFi: ", ErrorMessage(response.json, "Failed to create checkout")>>, sent)
       ELSE IF Get(checkout, "id", "") = ""
       THEN Raise("ValidationError", <<"JustiFi: No checkout ID returned.">>, sent)
       ELSE Return(checkout, sent)

\* a faulty web-component-token call: the token is asked for every checkout
\* of the sub-account, and the Sub-Account header is sent
_justifi_get_web_component_token_Unscoped(p, checkout_id, tokenResponse, response) ==
  LET token == _justifi_get_access_token(p, tokenResponse) IN
  IF ~token.ok THEN token
  ELSE
    LET resources == << <<"write:checkout:", "*">>,
                        <<"write:tokenize:", p.justifi_account_id>> >>
        request ==
          [method |-> "POST", url |-> <<"WEB_COMPONENT_TOKEN_URL">>,
           headers |-> ("Authorization" :> <<"Bearer", token.value>>)
                       @@ ("Content-Type" :> "application/json")
                       @@ ("Sub-Account" :> p.justifi_account_id),
           json |-> [resources |-> resources]]
        sent == token.http \o Exchange(request, response)
        wct == Get(response.json, "access_token", "")
    IN IF response.status_code = 0
       THEN Raise("ValidationError", <<"Could not connect to JustiFi. Please try again later.">>, sent)
       ELSE IF response.status_code # 200
       THEN Raise("ValidationError", <<"JustiFi: Failed to initialize payment form.">>, sent)
       ELSE Return(wct, sent)

\* payment_provider.py: PaymentProvider._justifi_get_web_component_token
_justifi_get_web_component_token(p, checkout_id, tokenResponse, response) ==
  LET token == _justifi_get_access_token(p, tokenResponse) IN
  IF ~token.ok THEN token
  ELSE
    LET resources == << <<"write:checkout:", checkout_id>>,
                        <<"write:tokenize:", p.justifi_account_id>> >>
        request ==
          [method |-> "POST", url |-> <<"WEB_COMPONENT_TOKEN_URL">>,
           headers |-> ("Authorization" :> <<"Bearer", token.value>>)
                       @@ ("Content-Type" :> "application/json"),
           json |-> [resources |-> resources]]
        sent == token.http \o Exchange(request, response)
        wct == Get(response.json, "access_token", "")
    IN IF response.status_code = 0
       THEN Raise("ValidationError", <<"Could not connect to JustiFi. Please try again later.">>, sent)
       ELSE IF response.status_code # 200
       THEN Raise("ValidationError", <<"JustiFi: Failed to initialize payment form.">>, sent)
       ELSE IF wct = ""
       THEN Raise("ValidationError", <<"JustiFi: Failed to initialize payment form.">>, sent)
       ELSE Return(wct, sent)

\* payment_provider.py: PaymentProvider._justifi_get_checkout
_justifi_get_checkout(p, checkout_id, tokenResponse, response) ==
  LET token == _justifi_get_access_token(p, tokenResponse) IN
  IF ~token.ok THEN token
  ELSE
    LET request ==
          [method |-> "GET", url |-> <<"CHECKOUTS_URL", checkout_id>>,
           headers |-> ("Authorization" :> <<"Bearer", token.value>>)
                       @@ ("Content-Type" :> "application/json")
                       @@ ("Sub-Account" :> p.justifi_account_id),
           json |-> EmptyDict]
        sent == token.http \o Exchange(request, response)
    IN IF response.status_code = 0
       THEN Raise("ValidationError", <<"Could not connect to JustiFi. Please try again later.">>, sent)
       ELSE IF response.status_code >= 400
       THEN Raise("ValidationError", <<"JustiFi: Failed to verify payment status.">>, sent)
       ELSE Return(Unwrap(response.json), sent)

(***************************************************************************)
(* payment.transaction                                                     *)
(***************************************************************************)
\* the host's state setters (Odoo 19 payment.transaction._update_state): a
\* setter moves a transaction to its target state from the states it allows
\* and leaves a transaction in any other state as it is
UpdateState(rec, allowed_states, target_state) ==
  IF rec.state \in allowed_states THEN [rec EXCEPT !.state = target_state] ELSE rec
_set_done(rec) == UpdateState(rec, {"draft", "pending", "authorized", "error"}, "done")
_set_pending(rec) == UpdateState(rec, {"draft"}, "pending")
_set_error(rec) == UpdateState(rec, {"draft", "pending", "authorized"}, "error")
_set_canceled(rec) == UpdateState(rec, {"draft", "pending", "authorized"}, "cancel")

\* one invocation of a transaction method by a handler
Call(method, message) == [method |-> method, message |-> message]
StateSetters == {"_set_done", "_set_pending", "_set_error", "_set_canceled"}

\* a faulty processing: an unknown status sets nothing, and a transaction
\* that is done is left alone
_justifi_process_payment_data_ByState(rec, payment_data) ==
  LET status == Get(payment_data, "status", "")
      odoo_state == Get(STATUS_MAPPING, status, "")
  IN IF rec.state = "done" THEN [rec |-> rec, calls |-> <<>>]
     ELSE IF odoo_state = "done"
     THEN [rec |-> _set_done(rec),
           calls |-> <<Call("_set_done", <<>>), Call("_post_process", <<>>)>>]
     ELSE IF odoo_state = "pending"
     THEN [rec |-> _set_pending(rec), calls |-> <<Call("_set_pending", <<>>)>>]
     ELSE IF odoo_state = "error"
     THEN [rec |-> _set_error(rec), calls |-> <<Call("_set_error", <<"JustiFi: ">>)>>]
     ELSE IF odoo_state = "cancel"
     THEN [rec |-> _set_canceled(rec), calls |-> <<Call("_set_canceled", <<>>)>>]
     ELSE [rec |-> rec, calls |-> <<>>]

\* payment_transaction.py: PaymentTransaction._justifi_process_payment_data
\* on record rec: the record afterwards and the methods invoked on it
_justifi_process_payment_data(rec, payment_data) ==
  LET checkout_id == Or(Get(payment_data, "checkout_id", ""), Get(payment_data, "id", ""))
      status == Get(payment_data, "status", "")
      payment_id == Get(payment_data, "successful_payment_id", "")
      odoo_state == Get(STATUS_MAPPING, status, "pending")
      referenced ==
        IF payment_id # "" THEN [rec EXCEPT !.provider_reference = payment_id]
        ELSE IF checkout_id # "" /\ rec.provider_reference = ""
        THEN [rec EXCEPT !.provider_reference = checkout_id]
        ELSE rec
      error_msg == Get(Get(payment_data, "error", EmptyDict), "message", "Payment failed")
  IN IF odoo_state = "done"
     THEN [rec |-> _set_done(referenced),
           calls |-> <<Call("_set_done", <<>>), Call("_post_process", <<>>)>>]
     ELSE IF odoo_state = "pending"
     THEN [rec |-> _set_pending(referenced), calls |-> <<Call("_set_pending", <<>>)>>]
     ELSE IF odoo_state = "error"
     THEN [rec |-> _set_error(referenced),
           calls |-> <<Call("_set_error", <<"JustiFi: ", error_msg>>)>>]
     ELSE IF odoo_state = "cancel"
     THEN [rec |-> _set_canceled(referenced), calls |-> <<Call("_set_canceled", <<>>)>>]
     ELSE [rec |-> referenced, calls |-> <<>>]

\* search([('provider_reference', '=', reference), ...], limit=1): the id of the
\* first match in the model's order (payment.transaction: id desc), 0 if none.
\* Whether a search for '' matches the transactions whose provider_reference
\* is unset (NULL) depends on the host's domain semantics: null_is_empty says.
SearchTx(txs, reference, null_is_empty) ==
  LET found == {t \in DOMAIN txs :
                  /\ txs[t].provider_reference = reference
                  /\ reference = "" => null_is_empty}
  IN IF found = {} THEN 0 ELSE CHOOSE t \in found : \A u \in found : u <= t

\* what a handler did: the transactions afterwards, the exchanges made, the
\* methods invoked (each with the transaction id), the response
Did(txs, exchanges, invoked, out, exc) ==
  [tx |-> txs, http |-> exchanges, calls |-> invoked,
   result |-> [out |-> out, exc |-> exc]]
\* the calls made on transaction t
On(t, invoked) == [i \in 1..Len(invoked) |-> [tx |-> t] @@ invoked[i]]

(***************************************************************************)
(* controllers/main.py: JustiFiController                                  *)
(***************************************************************************)
Redirect == [redirect |-> "/payment/status"]

\* a faulty complete endpoint: an exception raised after the transaction was
\* found is not caught
justifi_complete_Reraising(p, txs, kwargs, tokenResponse, response) ==
  LET checkout_id == Get(kwargs, "checkout_id", "")
      payment_id == Get(kwargs, "payment_id", "")
      t == SearchTx(txs, checkout_id, FALSE)
      checkout == _justifi_get_checkout(p, checkout_id, tokenResponse, response)
      checkout_data ==
        LET with_id == Put(checkout.value, "checkout_id", checkout_id)
        IN IF payment_id # "" THEN Put(with_id, "successful_payment_id", payment_id)
           ELSE with_id
      processed == _justifi_process_payment_data(txs[t], checkout_data)
  IN IF checkout_id = "" THEN Did(txs, <<>>, <<>>, Redirect, "")
     ELSE IF t = 0 THEN Did(txs, <<>>, <<>>, Redirect, "")
     ELSE IF ~checkout.ok THEN Did(txs, checkout.http, <<>>, EmptyDict, checkout.exc)
     ELSE IF checkout.value = None
     THEN Did(txs, checkout.http, <<>>, EmptyDict, "TypeError")
     ELSE Did([txs EXCEPT ![t] = processed.rec], checkout.http,
              On(t, processed.calls), Redirect, "")

\* a faulty complete endpoint: what the browser submitted is processed
\* without asking the vendor
justifi_complete_Unverified(p, txs, kwargs, tokenResponse, response) ==
  LET checkout_id == Get(kwargs, "checkout_id", "")
      payment_id == Get(kwargs, "payment_id", "")
      t == SearchTx(txs, checkout_id, FALSE)
      checkout_data ==
        LET with_id == [status |-> "completed", checkout_id |-> checkout_id]
        IN IF payment_id # "" THEN Put(with_id, "successful_payment_id", payment_id)
           ELSE with_id
      processed == _justifi_process_payment_data(txs[t], checkout_data)
  IN IF checkout_id = "" THEN Did(txs, <<>>, <<>>, Redirect, "")
     ELSE IF t = 0 THEN Did(txs, <<>>, <<>>, Redirect, "")
     ELSE Did([txs EXCEPT ![t] = processed.rec], <<>>,
              On(t, processed.calls), Redirect, "")

\* JustiFiController.justifi_complete
justifi_complete(p, txs, kwargs, tokenResponse, response) ==
  LET checkout_id == Get(kwargs, "checkout_id", "")
      payment_id == Get(kwargs, "payment_id", "")
      t == SearchTx(txs, checkout_id, FALSE)
      checkout == _justifi_get_checkout(p, checkout_id, tokenResponse, response)
      checkout_data ==
        LET with_id == Put(checkout.value, "checkout_id", checkout_id)
        IN IF payment_id # "" THEN Put(with_id, "successful_payment_id", payment_id)
           ELSE with_id
      processed == _justifi_process_payment_data(txs[t], checkout_data)
  IN IF checkout_id = "" THEN Did(txs, <<>>, <<>>, Redirect, "")
     ELSE IF t = 0 THEN Did(txs, <<>>, <<>>, Redirect, "")
     ELSE IF ~checkout.ok THEN Did(txs, checkout.http, <<>>, Redirect, checkout.exc)
     ELSE IF checkout.value = None
     THEN Did(txs, checkout.http, <<>>, Redirect, "TypeError")
     ELSE Did([txs EXCEPT ![t] = processed.rec], checkout.http,
              On(t, processed.calls), Redirect, "")

\* the bytes of a JSON document, and request.jsonrequest parsing them
JsonDumps(data) == <<"json", data>>
JsonLoads(payload) == payload[2]
\* hmac.new(key, msg, hashlib.sha256).hexdigest(): a digest is determined by,
\* and determines, the key and the message
HmacSha256Hex(key, msg) == <<"hmac-sha256", key, msg>>
\* the value of a header that is absent or empty
NoHeader == <<>>

\* JustiFiController._verify_webhook_signature
_verify_webhook_signature(payload, signature, secret) ==
  LET expected == HmacSha256Hex(secret, payload)
  IN expected = signature

\* a faulty success handler: the status found in the event data is kept
_handle_payment_success_KeepStatus(txs, event_data) ==
  LET checkout_id == Get(event_data, "id", "")
      t == IF checkout_id # "" THEN SearchTx(txs, checkout_id, FALSE) ELSE 0
      data == Put(Put(event_data, "status", Get(event_data, "status", "completed")),
                  "checkout_id", checkout_id)
      processed == _justifi_process_payment_data(txs[t], data)
  IN IF t # 0 /\ txs[t].state \notin {"done", "cancel"}
     THEN [tx |-> [txs EXCEPT ![t] = processed.rec], calls |-> On(t, processed.calls)]
     ELSE [tx |-> txs, calls |-> <<>>]

\* JustiFiController._handle_payment_success
_handle_payment_success(txs, event_data) ==
  LET checkout_id == Get(event_data, "id", "")
      payment_id == Get(event_data, "successful_payment_id", "")
      by_checkout == IF checkout_id # "" THEN SearchTx(txs, checkout_id, FALSE) ELSE 0
      t == IF by_checkout = 0 /\ payment_id # ""
           THEN SearchTx(txs, payment_id, FALSE) ELSE by_checkout
      data == Put(Put(event_data, "status", "completed"), "checkout_id", checkout_id)
      processed == _justifi_process_payment_data(txs[t], data)
  IN IF t # 0 /\ txs[t].state \notin {"done", "cancel"}
     THEN [tx |-> [txs EXCEPT ![t] = processed.rec], calls |-> On(t, processed.calls)]
     ELSE [tx |-> txs, calls |-> <<>>]

\* a faulty failure handler: the transaction's state is not looked at
_handle_payment_failure_Unguarded(txs, event_data, null_is_empty) ==
  LET checkout_id == Get(event_data, "id", "")
      t == SearchTx(txs, checkout_id, null_is_empty)
      data == Put(Put(event_data, "status", "failed"), "checkout_id", checkout_id)
      processed == _justifi_process_payment_data(txs[t], data)
  IN IF t # 0
     THEN [tx |-> [txs EXCEPT ![t] = processed.rec], calls |-> On(t, processed.calls)]
     ELSE [tx |-> txs, calls |-> <<>>]

\* JustiFiController._handle_payment_failure
_handle_payment_failure(txs, event_data, null_is_empty) ==
  LET checkout_id == Get(event_data, "id", "")
      t == SearchTx(txs, checkout_id, null_is_empty)
      data == Put(Put(event_data, "status", "failed"), "checkout_id", checkout_id)
      processed == _justifi_process_payment_data(txs[t], data)
  IN IF t # 0 /\ txs[t].state \notin {"done", "cancel"}
     THEN [tx |-> [txs EXCEPT ![t] = processed.rec], calls |-> On(t, processed.calls)]
     ELSE [tx |-> txs, calls |-> <<>>]

\* the event types a handler is called for
HandledEventTypes == {"payment.succeeded", "checkout.completed", "payment.failed"}

\* a faulty webhook endpoint: the handlers are called outside the try block
justifi_webhook_Uncaught(p, txs, payload, signature, null_is_empty) ==
  LET data == JsonLoads(payload)
      event_type == Get(data, "event_type", "")
      event_data == Get(data, "data", EmptyDict)
      handled ==
        IF event_type \in {"payment.succeeded", "checkout.completed"}
        THEN _handle_payment_success(txs, event_data)
        ELSE IF event_type = "payment.failed"
        THEN _handle_payment_failure(txs, event_data, null_is_empty)
        ELSE [tx |-> txs, calls |-> <<>>]
  IN IF p.state = "disabled"
     THEN Did(txs, <<>>, <<>>, [status |-> "error", message |-> "Provider not found"], "")
     ELSE IF /\ p.justifi_webhook_secret # "" /\ signature # NoHeader
             /\ ~_verify_webhook_signature(payload, signature, p.justifi_webhook_secret)
     THEN Did(txs, <<>>, <<>>, [status |-> "error", message |-> "Invalid signature"], "")
     ELSE IF event_data = None /\ event_type \in HandledEventTypes
     THEN Did(txs, <<>>, <<>>, EmptyDict, "AttributeError")
     ELSE Did(handled.tx, <<>>, handled.calls, [status |-> "ok"], "")

\* JustiFiController.justifi_webhook, for a request with body payload and
\* Justifi-Signature header signature
justifi_webhook(p, txs, payload, signature, null_is_empty) ==
  LET data == JsonLoads(payload)
      event_type == Get(data, "event_type", "")
      event_data == Get(data, "data", EmptyDict)
      handled ==
        IF event_type \in {"payment.succeeded", "checkout.completed"}
        THEN _handle_payment_success(txs, event_data)
        ELSE IF event_type = "payment.failed"
        THEN _handle_payment_failure(txs, event_data, null_is_empty)
        ELSE [tx |-> txs, calls |-> <<>>]
  IN IF p.state = "disabled"
     THEN Did(txs, <<>>, <<>>, [status |-> "error", message |-> "Provider not found"], "")
     ELSE IF /\ p.justifi_webhook_secret # "" /\ signature # NoHeader
             /\ ~_verify_webhook_signature(payload, signature, p.justifi_webhook_secret)
     THEN Did(txs, <<>>, <<>>, [status |-> "error", message |-> "Invalid signature"], "")
     ELSE IF event_data = None /\ event_type \in HandledEventTypes
     THEN Did(txs, <<>>, <<>>,
              [status |-> "error", message |-> "'NoneType' object has no attribute 'get'"],
              "AttributeError")
     ELSE Did(handled.tx, <<>>, handled.calls, [status |-> "ok"], "")

\* payment_transaction.py: PaymentTransaction._get_specific_rendering_values
\* for transaction t; the ValidationError of a failed call propagates
_get_specific_rendering_values(p, txs, t, tokenResponse, createResponse, tokenResponse2, wctResponse) ==
  LET checkout == _justifi_create_checkout(p, <<"Payment for", t>>,
                                           tokenResponse, createResponse)
      checkout_id == checkout.value["id"]
      stored == [txs EXCEPT ![t].provider_reference = checkout_id]
      auth_token == _justifi_get_web_component_token(p, checkout_id,
                                                     tokenResponse2, wctResponse)
  IN IF ~checkout.ok
     THEN Did(txs, checkout.http, <<>>, [raised |-> checkout.message], checkout.exc)
     ELSE IF ~auth_token.ok
     THEN Did(stored, checkout.http \o auth_token.http, <<>>,
              [raised |-> auth_token.message], auth_token.exc)
     ELSE Did(stored, checkout.http \o auth_token.http, <<>>,
              [checkout_id |-> checkout_id, auth_token |-> auth_token.value,
               account_id |-> p.justifi_account_id,
               api_url |-> "/payment/justifi/complete"], "")

(***************************************************************************)
(* pos_payment_justifi                                                     *)
(***************************************************************************)
\* pos_payment_method.py: the pos.payment.method records of the database,
\* with the fields the add-on adds (has_provider: justifi_payment_provider_id
\* is set, to the JustiFi provider)
PosPaymentMethods ==
  [m \in {"pm_1", "pm_2", "pm_3", "pm_4"} |->
     CASE m = "pm_1" -> [use_payment_terminal |-> "justifi",
                         justifi_terminal_id |-> "trm_1", has_provider |-> TRUE]
       [] m = "pm_2" -> [use_payment_terminal |-> "justifi",
                         justifi_terminal_id |-> "", has_provider |-> TRUE]
       [] m = "pm_3" -> [use_payment_terminal |-> "adyen",
                         justifi_terminal_id |-> "", has_provider |-> FALSE]
       [] m = "pm_4" -> [use_payment_terminal |-> "justifi",
                         justifi_terminal_id |-> "trm_2", has_provider |-> FALSE]]
\* the res.currency records of the database
Currencies == {"USD"}

\* a faulty key generation: the same key for every call
uuid4_Fixed == UuidNames[1]

\* str(uuid.uuid4()): a value no earlier call returned
uuid4 == UuidNames[uuids + 1]

\* how the vendor may react to POST .../pay: the response the client gets (a
\* network error included) and whether the request reached the vendor
PayReactions ==
  {[response |-> NetworkError, reached |-> FALSE],
   [response |-> NetworkError, reached |-> TRUE],
   [response |-> Response(400, [error |-> [message |-> "Terminal is busy"]]), reached |-> FALSE],
   [response |-> Response(500, EmptyDict), reached |-> FALSE],
   [response |-> Response(201, [data |-> [id |-> "tra_1", status |-> "in_progress"]]), reached |-> TRUE],
   [response |-> Response(200, [status |-> "in_progress"]), reached |-> TRUE]}
\* what the vendor may answer to POST .../cancel
CancelResponses ==
  {NetworkError, Response(404, EmptyDict),
   Response(200, [data |-> [id |-> "tra_1", status |-> "canceled"]])}

\* a faulty terminal call: the response's status code is not looked at
_send_to_terminal_AnyStatus(p, terminal_id, checkout_id, tokenResponse, response) ==
  LET token == _justifi_get_access_token(p, tokenResponse) IN
  IF ~token.ok THEN token
  ELSE
    LET request ==
          [method |-> "POST", url |-> <<"TERMINALS_URL", terminal_id, "pay">>,
           headers |-> ("Authorization" :> <<"Bearer", token.value>>)
                       @@ ("Content-Type" :> "application/json")
                       @@ ("Sub-Account" :> p.justifi_account_id)
                       @@ ("Idempotency-Key" :> uuid4),
           json |-> [checkout_id |-> checkout_id]]
        sent == token.http \o Exchange(request, response)
    IN IF response.status_code = 0
       THEN Raise("RequestException", <<"Connection error">>, sent)
       ELSE Return(Unwrap(response.json), sent)

\* controllers/main.py: PosJustiFiController._send_to_terminal
_send_to_terminal(p, terminal_id, checkout_id, tokenResponse, response) ==
  LET token == _justifi_get_access_token(p, tokenResponse) IN
  IF ~token.ok THEN token
  ELSE
    LET request ==
          [method |-> "POST", url |-> <<"TERMINALS_URL", terminal_id, "pay">>,
           headers |-> ("Authorization" :> <<"Bearer", token.value>>)
                       @@ ("Content-Type" :> "application/json")
                       @@ ("Sub-Account" :> p.justifi_account_id)
                       @@ ("Idempotency-Key" :> uuid4),
           json |-> [checkout_id |-> checkout_id]]
        sent == token.http \o Exchange(request, response)
    IN IF response.status_code = 0
       THEN Raise("RequestException", <<"Connection error">>, sent)
       ELSE IF response.status_code >= 400
       THEN Raise("Exception",
                  <<ErrorMessage(response.json, "Failed to send payment to terminal")>>, sent)
       ELSE Return(Unwrap(response.json), sent)

\* pos_payment_method.py: PosPaymentMethod._justifi_send_to_terminal
_justifi_send_to_terminal(p, terminal_id, checkout_id, tokenResponse, response) ==
  LET token == _justifi_get_access_token(p, tokenResponse) IN
  IF ~token.ok THEN token
  ELSE
    LET request ==
          [method |-> "POST", url |-> <<"TERMINALS_URL", "pay">>,
           headers |-> ("Authorization" :> <<"Bearer", token.value>>)
                       @@ ("Content-Type" :> "application/json")
                       @@ ("Sub-Account" :> p.justifi_account_id)
                       @@ ("Idempotency-Key" :> uuid4),
           json |-> [checkout_id |-> checkout_id, terminal_id |-> terminal_id]]
        sent == token.http \o Exchange(request, response)
    IN IF response.status_code = 0
       THEN Raise("RequestException", <<"Connection error">>, sent)
       ELSE IF response.status_code >= 400
       THEN Raise("Exception",
                  <<ErrorMessage(response.json, "Failed to send payment to terminal")>>, sent)
       ELSE Return(Unwrap(response.json), sent)

\* controllers/main.py: PosJustiFiController._cancel_terminal_action
_cancel_terminal_action(p, terminal_id, checkout_id, tokenResponse, response) ==
  LET token == _justifi_get_access_token(p, tokenResponse) IN
  IF ~token.ok THEN token
  ELSE
    LET request ==
          [method |-> "POST", url |-> <<"TERMINALS_URL", terminal_id, "cancel">>,
           headers |-> ("Authorization" :> <<"Bearer", token.value>>)
                       @@ ("Content-Type" :> "application/json")
                       @@ ("Sub-Account" :> p.justifi_account_id),
           json |-> [checkout_id |-> checkout_id]]
        sent == token.http \o Exchange(request, response)
    IN IF response.status_code = 0
       THEN Raise("RequestException", <<"Connection error">>, sent)
       ELSE Return(Unwrap(response.json), sent)

\* pos_payment_method.py: PosPaymentMethod._justifi_cancel_terminal_action
_justifi_cancel_terminal_action(p, terminal_id, checkout_id, tokenResponse, response) ==
  LET token == _justifi_get_access_token(p, tokenResponse) IN
  IF ~token.ok THEN token
  ELSE
    LET request ==
          [method |-> "POST", url |-> <<"TERMINALS_URL", terminal_id, "cancel">>,
           headers |-> ("Authorization" :> <<"Bearer", token.value>>)
                       @@ ("Content-Type" :> "application/json")
                       @@ ("Sub-Account" :> p.justifi_account_id),
           json |-> [checkout_id |-> checkout_id]]
        sent == token.http \o Exchange(request, response)
    IN IF response.status_code = 0
       THEN Raise("RequestException", <<"Connection error">>, sent)
       ELSE Return(Unwrap(response.json), sent)

\* the description of the checkout of a POS payment
PosDescription(pos_order_id) ==
  IF pos_order_id # 0 THEN <<"POS Order", pos_order_id>> ELSE <<"POS Payment", 0>>
\* the early return of a payment request, "" if it has none
PosRequestRefusal(p, payment_method, currency_id) ==
  IF payment_method.use_payment_terminal # "justifi" THEN "Invalid payment method type"
  ELSE IF payment_method.justifi_terminal_id = "" THEN "Terminal ID not configured"
  ELSE IF ~payment_method.has_provider \/ p.state = "disabled"
  THEN "JustiFi provider not configured or disabled"
  ELSE IF currency_id \notin Currencies THEN "Currency not found"
  ELSE ""

\* controllers/main.py: PosJustiFiController.payment_request
payment_request(p, txs, payment_method_id, currency_id, pos_order_id, tokenResponse, createResponse, tokenResponse2, payResponse) ==
  LET payment_method == PosPaymentMethods[payment_method_id]
      refusal == PosRequestRefusal(p, payment_method, currency_id)
      checkout == _justifi_create_checkout(p, PosDescription(pos_order_id),
                                           tokenResponse, createResponse)
      checkout_id == checkout.value["id"]
      terminal_response == _send_to_terminal(p, payment_method.justifi_terminal_id,
                                             checkout_id, tokenResponse2, payResponse)
  IN IF payment_method_id \notin DOMAIN PosPaymentMethods
     THEN Did(txs, <<>>, <<>>, [error |-> <<"Payment method not found">>], "")
     ELSE IF refusal # "" THEN Did(txs, <<>>, <<>>, [error |-> <<refusal>>], "")
     ELSE IF ~checkout.ok
     THEN Did(txs, checkout.http, <<>>, [error |-> checkout.message], checkout.exc)
     ELSE IF ~terminal_response.ok
     THEN Did(txs, checkout.http \o terminal_response.http, <<>>,
              [error |-> terminal_response.message], terminal_response.exc)
     ELSE Did(txs, checkout.http \o terminal_response.http, <<>>,
              [success |-> TRUE, checkout_id |-> checkout_id,
               terminal_action_id |-> Get(terminal_response.value, "id", ""),
               terminal_id |-> payment_method.justifi_terminal_id], "")

\* pos_payment_method.py: PosPaymentMethod.justifi_payment_request, on the
\* record payment_method_id
justifi_payment_request(p, txs, payment_method_id, currency_id, pos_order_id, tokenResponse, createResponse, tokenResponse2, payResponse) ==
  LET self == PosPaymentMethods[payment_method_id]
      refusal == PosRequestRefusal(p, self, currency_id)
      checkout == _justifi_create_checkout(p, PosDescription(pos_order_id),
                                           tokenResponse, createResponse)
      checkout_id == checkout.value["id"]
      terminal_response == _justifi_send_to_terminal(p, self.justifi_terminal_id,
                                                     checkout_id, tokenResponse2, payResponse)
  IN IF refusal # "" THEN Did(txs, <<>>, <<>>, [error |-> <<refusal>>], "")
     ELSE IF ~checkout.ok
     THEN Did(txs, checkout.http, <<>>, [error |-> checkout.message], checkout.exc)
     ELSE IF ~terminal_response.ok
     THEN Did(txs, checkout.http \o terminal_response.http, <<>>,
              [error |-> terminal_response.message], terminal_response.exc)
     ELSE Did(txs, checkout.http \o terminal_response.http, <<>>,
              [success |-> TRUE, checkout_id |-> checkout_id,
               terminal_action_id |-> Get(terminal_response.value, "id", ""),
               terminal_id |-> self.justifi_terminal_id], "")

\* the status result both implementations build from a checkout
StatusResult(checkout, checkout_id) ==
  LET status == Get(checkout, "status", "") IN
  [success |-> TRUE, status |-> status,
   payment_id |-> Get(checkout, "successful_payment_id", ""),
   checkout_id |-> checkout_id,
   is_paid |-> status \in {"completed", "succeeded"},
   is_pending |-> status \in {"pending", "created"},
   is_failed |-> status \in {"failed", "canceled"}]

\* controllers/main.py: PosJustiFiController.payment_status
payment_status(p, txs, checkout_id, tokenResponse, response) ==
  LET checkout == _justifi_get_checkout(p, checkout_id, tokenResponse, response) IN
  IF p.state = "disabled"
  THEN Did(txs, <<>>, <<>>, [error |-> <<"JustiFi provider not found">>], "")
  ELSE IF ~checkout.ok
  THEN Did(txs, checkout.http, <<>>, [error |-> checkout.message], checkout.exc)
  ELSE Did(txs, checkout.http, <<>>, StatusResult(checkout.value, checkout_id), "")

\* pos_payment_method.py: PosPaymentMethod.justifi_payment_status
justifi_payment_status(p, txs, checkout_id, tokenResponse, response) ==
  LET checkout == _justifi_get_checkout(p, checkout_id, tokenResponse, response) IN
  IF p.state = "disabled"
  THEN Did(txs, <<>>, <<>>, [error |-> <<"JustiFi provider not found">>], "")
  ELSE IF ~checkout.ok
  THEN Did(txs, checkout.http, <<>>, [error |-> checkout.message], checkout.exc)
  ELSE Did(txs, checkout.http, <<>>, StatusResult(checkout.value, checkout_id), "")

\* controllers/main.py: PosJustiFiController.cancel_payment
cancel_payment(p, txs, checkout_id, terminal_id, tokenResponse, response) ==
  LET cancelled == _cancel_terminal_action(p, terminal_id, checkout_id,
                                           tokenResponse, response) IN
  IF p.state = "disabled"
  THEN Did(txs, <<>>, <<>>, [error |-> <<"JustiFi provider not found">>], "")
  ELSE IF ~cancelled.ok
  THEN Did(txs, cancelled.http, <<>>, [error |-> cancelled.message], cancelled.exc)
  ELSE Did(txs, cancelled.http, <<>>, [success |-> TRUE, cancelled |-> TRUE], "")

\* pos_payment_method.py: PosPaymentMethod.justifi_cancel_payment
justifi_cancel_payment(p, txs, checkout_id, terminal_id, tokenResponse, response) ==
  LET cancelled == _justifi_cancel_terminal_action(p, terminal_id, checkout_id,
                                                   tokenResponse, response) IN
  IF p.state = "disabled"
  THEN Did(txs, <<>>, <<>>, [error |-> <<"JustiFi provider not found">>], "")
  ELSE IF ~cancelled.ok
  THEN Did(txs, cancelled.http, <<>>, [error |-> cancelled.message], cancelled.exc)
  ELSE Did(txs, cancelled.http, <<>>, [success |-> TRUE, cancelled |-> TRUE], "")

(***************************************************************************)
(* The state machine                                                       *)
(***************************************************************************)
\* payment_provider.py: the provider's fields.  A field declared with
\* required_if_provider='justifi' is set on every provider that is not
\* disabled.  The configurations explored: an enabled provider, with or
\* without a webhook secret, and a disabled one lacking one required field.
RequiredFields == {"justifi_client_id", "justifi_client_secret", "justifi_account_id"}
ProviderConfigs ==
  {p \in [state : {"enabled", "disabled"},
          justifi_client_id : {"", "client_1"},
          justifi_client_secret : {"", "secret_1"},
          justifi_account_id : {"", "acc_1"},
          justifi_webhook_secret : {"", "whsec_1"}] :
     IF p.state = "disabled"
     THEN /\ Cardinality({f \in RequiredFields : p[f] = ""}) = 1
          /\ p.justifi_webhook_secret # ""
     ELSE \A f \in RequiredFields : p[f] # ""}

\* the requests a client may post to the complete endpoint
CompleteRequests ==
  UNION {WithOptional(k, "payment_id", PaymentIds) :
         k \in WithOptional(EmptyDict, "checkout_id", CheckoutIds)}
\* the webhook bodies a client may post
EventTypes == {"payment.succeeded", "checkout.completed", "payment.failed", "payment.refunded"}
\* the event data: with or without a checkout id and a payment id; for a
\* checkout, also with a status of its own or with an error object
EventDatas ==
  UNION {WithOptional(d, "successful_payment_id", PaymentIds) :
         d \in WithOptional(EmptyDict, "id", CheckoutIds)}
  \cup {Put([id |-> c], "status", "failed") : c \in CheckoutIds}
  \cup {Put([id |-> c], "error", e) :
          c \in CheckoutIds, e \in {EmptyDict, [message |-> "Card declined"]}}
WebhookPayloads ==
  {JsonDumps([event_type |-> e, data |-> d]) :
     e \in EventTypes, d \in EventDatas \cup {None}}
\* the Justifi-Signature headers a client may send with payload: none, the
\* digest under the provider's secret, the digest under another key
SigningKeys == {"whsec_1", "whsec_forged"}
Signatures(payload) == {NoHeader} \cup {HmacSha256Hex(k, payload) : k \in SigningKeys}

\* the checkout id the vendor issues next
NextCheckoutId == CheckoutIdNames[Len(checkouts) + 1]
\* the vendor's checkouts after a handler's exchanges: a checkout is issued
\* with each create-checkout request answered with an id
Issued(exchanges) ==
  LET created == SelectSeq(exchanges,
        LAMBDA x : /\ x.request.url = <<"CHECKOUTS_URL">>
                   /\ x.request.method = "POST"
                   /\ x.response.status_code \in 200..399
                   /\ Get(Unwrap(x.response.json), "id", "") # "")
  IN checkouts \o [i \in 1..Len(created) |-> created[i].request.json.description]
\* the terminal-pay requests among a handler's exchanges
PayRequests(exchanges) ==
  LET pays == SelectSeq(exchanges,
        LAMBDA x : x.request.url[1] = "TERMINALS_URL"
                   /\ x.request.url[Len(x.request.url)] = "pay")
  IN [i \in 1..Len(pays) |-> pays[i].request]
\* the terminal a pay request names: in its URL or in its body
TerminalOf(request) ==
  IF Len(request.url) = 3 THEN request.url[2] ELSE Get(request.json, "terminal_id", "")
\* the vendor's terminal actions after a pay request reached it: the vendor
\* accepts one action per Idempotency-Key
Accepted(actions, request) ==
  LET key == Get(request.headers, "Idempotency-Key", "") IN
  IF key # "" /\ \E a \in actions : a.key = key THEN actions
  ELSE actions \cup {[key |-> key, checkout_id |-> request.json.checkout_id,
                      terminal_id |-> TerminalOf(request)]}
PosRequestHandlers == {"payment_request", "justifi_payment_request"}
\* the transactions on which the calls invoke _post_process
PostProcessedBy(invoked) ==
  {invoked[i].tx : i \in {j \in 1..Len(invoked) : invoked[j].method = "_post_process"}}

\* the step of a handler that did `did` on `input`; reached: whether its
\* terminal-pay request, if it sent one, reached the vendor
Apply(did, input, reached) ==
  LET pays == PayRequests(did.http) IN
  /\ tx' = did.tx
  /\ http' = did.http
  /\ calls' = did.calls
  /\ postProcessed' = postProcessed \cup PostProcessedBy(did.calls)
  /\ result' = did.result
  /\ req' = input
  /\ checkouts' = Issued(did.http)
  /\ uuids' = uuids + Len(pays)
  /\ payKeys' = payKeys \o [i \in 1..Len(pays) |-> Get(pays[i].headers, "Idempotency-Key", "")]
  /\ terminalActions' =
       IF reached /\ pays # <<>> THEN Accepted(terminalActions, pays[1])
       ELSE terminalActions
  /\ posOutcome' =
       IF input.handler \in PosRequestHandlers /\ input.pos_order_id \in Orders
       THEN [posOutcome EXCEPT ![input.pos_order_id] =
               @ \cup {IF "success" \in DOMAIN did.result.out THEN "success" ELSE "error"}]
       ELSE posOutcome
  /\ UNCHANGED provider

Init ==
  /\ provider \in ProviderConfigs
  /\ tx = [t \in TxIds |-> [state |-> "draft", provider_reference |-> ""]]
  /\ checkouts = <<>>
  /\ terminalActions = {}
  /\ uuids = 0
  /\ payKeys = <<>>
  /\ posOutcome = [o \in Orders |-> {}]
  /\ postProcessed = {}
  /\ http = <<>>
  /\ calls = <<>>
  /\ req = [handler |-> ""]
  /\ result = [out |-> EmptyDict, exc |-> ""]

\* the payment form of a new transaction is rendered
Render ==
  \E t \in TxIds :
    /\ tx[t].state = "draft"
    /\ tx[t].provider_reference = ""
    /\ Len(checkouts) < MaxCheckouts
    /\ \E r1 \in TokenResponses :
       \E r2 \in ResponsesAfter(_justifi_get_access_token(provider, r1),
                                CreateCheckoutResponses(NextCheckoutId)) :
       LET created == _justifi_create_checkout(provider, <<"Payment for", t>>, r1, r2) IN
       \E r3 \in ResponsesAfter(created, TokenResponses) :
       \E r4 \in ResponsesAfter(
                   IF created.ok THEN _justifi_get_access_token(provider, r3) ELSE created,
                   WebComponentTokenResponses) :
         Apply(_get_specific_rendering_values(provider, tx, t, r1, r2, r3, r4),
               [handler |-> "_get_specific_rendering_values", tx |-> t], FALSE)

\* a client posts to /payment/justifi/complete
Complete ==
  \E kwargs \in CompleteRequests :
    LET found == SearchTx(tx, Get(kwargs, "checkout_id", ""), FALSE) # 0 IN
    \E r1 \in IF found THEN TokenResponses ELSE {NetworkError} :
    \E r2 \in IF found
              THEN ResponsesAfter(_justifi_get_access_token(provider, r1),
                                  GetCheckoutResponses(kwargs["checkout_id"])
                                    \cup {NullCheckoutResponse})
              ELSE {NetworkError} :
      Apply(justifi_complete(provider, tx, kwargs, r1, r2),
            [handler |-> "justifi_complete", kwargs |-> kwargs], FALSE)

\* a client posts to /payment/justifi/webhook
Webhook ==
  \E payload \in WebhookPayloads :
  \E signature \in Signatures(payload) :
  \E null_is_empty \in IF Get(Get(JsonLoads(payload), "data", EmptyDict), "id", "") = "" THEN BOOLEAN ELSE {FALSE} :
    Apply(justifi_webhook(provider, tx, payload, signature, null_is_empty),
          [handler |-> "justifi_webhook", payload |-> payload, signature |-> signature],
          FALSE)

\* the inputs of a POS payment request
\* (a request the handler refuses is tried once per reason)
PosRequestInputs ==
  {in \in [payment_method_id : DOMAIN PosPaymentMethods, currency_id : {"USD", "XXX"},
           pos_order_id : {0} \cup Orders] :
     \/ in.payment_method_id = "pm_1" /\ in.currency_id = "USD"
     \/ in.pos_order_id = 0 /\ (in.payment_method_id = "pm_1" \/ in.currency_id = "USD")}

\* the POS posts to /pos_justifi/payment_request
PosPaymentRequest ==
  /\ Len(checkouts) < MaxCheckouts
  /\ uuids < MaxUuid
  /\ \E in \in PosRequestInputs \cup
               {[payment_method_id |-> "pm_0", currency_id |-> "USD", pos_order_id |-> 0]} :
     LET goes == /\ in.payment_method_id \in DOMAIN PosPaymentMethods
                 /\ PosRequestRefusal(provider, PosPaymentMethods[in.payment_method_id],
                                      in.currency_id) = "" IN
     \E r1 \in IF goes THEN TokenResponses ELSE {NetworkError} :
     \E r2 \in IF goes
               THEN ResponsesAfter(_justifi_get_access_token(provider, r1),
                                   CreateCheckoutResponses(NextCheckoutId))
               ELSE {NetworkError} :
     LET created == IF goes
                    THEN _justifi_create_checkout(provider, PosDescription(in.pos_order_id), r1, r2)
                    ELSE Raise("", <<>>, <<>>) IN
     \E r3 \in ResponsesAfter(created, TokenResponses) :
     \E r4 \in ResponsesAfter(
                 IF created.ok THEN _justifi_get_access_token(provider, r3) ELSE created,
                 PayReactions) :
       Apply(payment_request(provider, tx, in.payment_method_id, in.currency_id,
                             in.pos_order_id, r1, r2, r3,
                             IF r4 \in PayReactions THEN r4.response ELSE r4),
             [handler |-> "payment_request"] @@ in,
             r4 \in PayReactions /\ r4.reached)

\* the POS calls pos.payment.method.justifi_payment_request on a record
PosJustifiPaymentRequest ==
  /\ Len(checkouts) < MaxCheckouts
  /\ uuids < MaxUuid
  /\ \E in \in PosRequestInputs :
     LET goes == PosRequestRefusal(provider, PosPaymentMethods[in.payment_method_id],
                                   in.currency_id) = "" IN
     \E r1 \in IF goes THEN TokenResponses ELSE {NetworkError} :
     \E r2 \in IF goes
               THEN ResponsesAfter(_justifi_get_access_token(provider, r1),
                                   CreateCheckoutResponses(NextCheckoutId))
               ELSE {NetworkError} :
     LET created == IF goes
                    THEN _justifi_create_checkout(provider, PosDescription(in.pos_order_id), r1, r2)
                    ELSE Raise("", <<>>, <<>>) IN
     \E r3 \in ResponsesAfter(created, TokenResponses) :
     \E r4 \in ResponsesAfter(
                 IF created.ok THEN _justifi_get_access_token(provider, r3) ELSE created,
                 PayReactions) :
       Apply(justifi_payment_request(provider, tx, in.payment_method_id, in.currency_id,
                                     in.pos_order_id, r1, r2, r3,
                                     IF r4 \in PayReactions THEN r4.response ELSE r4),
             [handler |-> "justifi_payment_request"] @@ in,
             r4 \in PayReactions /\ r4.reached)

\* the checkouts the POS polls and cancels
PolledCheckoutIds == {CheckoutIdNames[1]}

\* the POS posts to /pos_justifi/payment_status
PosPaymentStatus ==
  \E checkout_id \in PolledCheckoutIds :
  \E r1 \in IF provider.state # "disabled" THEN TokenResponses ELSE {NetworkError} :
  \E r2 \in ResponsesAfter(_justifi_get_access_token(provider, r1),
                           GetCheckoutResponses(checkout_id)) :
    Apply(payment_status(provider, tx, checkout_id, r1, r2),
          [handler |-> "payment_status", checkout_id |-> checkout_id], FALSE)

\* the POS calls pos.payment.method.justifi_payment_status
PosJustifiPaymentStatus ==
  \E checkout_id \in PolledCheckoutIds :
  \E r1 \in IF provider.state # "disabled" THEN TokenResponses ELSE {NetworkError} :
  \E r2 \in ResponsesAfter(_justifi_get_access_token(provider, r1),
                           GetCheckoutResponses(checkout_id)) :
    Apply(justifi_payment_status(provider, tx, checkout_id, r1, r2),
          [handler |-> "justifi_payment_status", checkout_id |-> checkout_id], FALSE)

\* the POS posts to /pos_justifi/cancel_payment
PosCancelPayment ==
  \E checkout_id \in PolledCheckoutIds, terminal_id \in {"trm_1"} :
  \E r1 \in IF provider.state # "disabled" THEN TokenResponses ELSE {NetworkError} :
  \E r2 \in ResponsesAfter(_justifi_get_access_token(provider, r1), CancelResponses) :
    Apply(cancel_payment(provider, tx, checkout_id, terminal_id, r1, r2),
          [handler |-> "cancel_payment", checkout_id |-> checkout_id,
           terminal_id |-> terminal_id], FALSE)

\* the POS calls pos.payment.method.justifi_cancel_payment
PosJustifiCancelPayment ==
  \E checkout_id \in PolledCheckoutIds, terminal_id \in {"trm_1"} :
  \E r1 \in IF provider.state # "disabled" THEN TokenResponses ELSE {NetworkError} :
  \E r2 \in ResponsesAfter(_justifi_get_access_token(provider, r1), CancelResponses) :
    Apply(justifi_cancel_payment(provider, tx, checkout_id, terminal_id, r1, r2),
          [handler |-> "justifi_cancel_payment", checkout_id |-> checkout_id,
           terminal_id |-> terminal_id], FALSE)

\* online payments: the payment form, the complete endpoint, the webhook
Next == Render \/ Complete \/ Webhook

Spec == Init /\ [][Next]_vars

\* point of sale: terminal payment requests, status polls, cancellations
NextPos ==
  \/ PosPaymentRequest
  \/ PosJustifiPaymentRequest
  \/ PosPaymentStatus
  \/ PosJustifiPaymentStatus
  \/ PosCancelPayment
  \/ PosJustifiCancelPayment

\* the webhook secret plays no part in the calls to the vendor: the
\* providers that have one stand for all
InitApi ==
  /\ Init
  /\ provider.justifi_webhook_secret # ""

SpecPos == InitApi /\ [][NextPos]_vars

\* a database with two transactions whose forms have been rendered, each
\* with the checkout id it was given
InitRendered ==
  /\ provider \in {p \in ProviderConfigs : p.state = "enabled"}
  /\ tx = [t \in {1, 2} |-> [state |-> "draft", provider_reference |-> CheckoutIdNames[t]]]
  /\ checkouts = [t \in {1, 2} |-> <<"Payment for", t>>]
  /\ terminalActions = {}
  /\ uuids = 0
  /\ payKeys = <<>>
  /\ posOutcome = [o \in Orders |-> {}]
  /\ postProcessed = {}
  /\ http = <<>>
  /\ calls = <<>>
  /\ req = [handler |-> ""]
  /\ result = [out |-> EmptyDict, exc |-> ""]

\* webhook deliveries to that database
SpecWebhooks == InitRendered /\ [][Webhook]_vars

\* every kind of call to the vendor: the rendering (create-checkout,
\* web-component-token) and the point of sale (create-checkout, get-checkout,
\* terminal-pay, terminal-cancel)
NextApi == Render \/ NextPos

SpecApi == InitApi /\ [][NextApi]_vars

(***************************************************************************)
(* Properties                                                              *)
(***************************************************************************)
\* the last handler was the webhook, called with an event of one of types
WebhookOf(r, types) ==
  /\ r.handler = "justifi_webhook"
  /\ Get(JsonLoads(r.payload), "event_type", "") \in types
\* the id the last webhook's event carries
EventId(r) == Get(Get(JsonLoads(r.payload), "data", EmptyDict), "id", "")
\* the state setters among the calls, in order
SettersIn(invoked) ==
  LET setters == SelectSeq(invoked, LAMBDA c : c.method \in StateSetters)
  IN [i \in 1..Len(setters) |-> setters[i].method]

\* C1: with a webhook secret configured, a webhook request about a checkout
\* whose Justifi-Signature header is not the HMAC-SHA256 of the body under
\* that secret changes no transaction, neither its state nor its
\* provider_reference.
C1_OnlySignedRequestsChangeTransactions ==
  [][(/\ req'.handler = "justifi_webhook"
      /\ EventId(req') # ""
      /\ provider.state # "disabled"
      /\ provider.justifi_webhook_secret # ""
      /\ req'.signature # HmacSha256Hex(provider.justifi_webhook_secret, req'.payload))
     => tx' = tx]_vars

\* the local states the table maps to
MappedStates == {STATUS_MAPPING[k] : k \in DOMAIN STATUS_MAPPING}
\* C2 as stated: the table has exactly five keys, and its values, the states
\* the transactions are moved to, are exactly done, pending, error and cancel.
C2_FiveKeysFourStates ==
  /\ Cardinality(DOMAIN STATUS_MAPPING) = 5
  /\ MappedStates = {"done", "pending", "error", "cancel"}
  /\ \A t \in TxIds : tx[t].state \in {"draft"} \cup MappedStates
\* C2, amended: the table has exactly six keys (completed, succeeded, pending,
\* created, failed, canceled), and its values, the states the transactions
\* are moved to, are exactly done, pending, error and cancel.
C2_SixKeysFourStates ==
  /\ DOMAIN STATUS_MAPPING = {"completed", "succeeded", "pending", "created", "failed", "canceled"}
  /\ Cardinality(DOMAIN STATUS_MAPPING) = 6
  /\ MappedStates = {"done", "pending", "error", "cancel"}
  /\ \A t \in TxIds : tx[t].state \in {"draft"} \cup MappedStates
\* the complete endpoint mapped a vendor status that is a key of the table
C2_TableConsulted ==
  /\ req.handler = "justifi_complete"
  /\ calls # <<>>
  /\ Get(Unwrap(http[Len(http)].response.json), "status", "") \in DOMAIN STATUS_MAPPING

\* the setter C3 names for a status
C3_SetterFor(status) ==
  CASE status \in {"completed", "succeeded"} -> "_set_done"
    [] status \in {"pending", "created"} -> "_set_pending"
    [] status = "failed" -> "_set_error"
    [] status = "canceled" -> "_set_canceled"
    [] OTHER -> "_set_pending"
\* the transaction states of the host
C3_TxStates == {"draft", "pending", "authorized", "done", "cancel", "error"}
\* C3: _justifi_process_payment_data invokes exactly one state setter, the
\* one the table gives for the status (set pending for an unknown or missing
\* status), whatever the transaction's state: for every state and status,
\* and in every call the complete endpoint and the webhook made.
C3_OneSetterByTable ==
  /\ \A state \in C3_TxStates, reference \in {"", "cho_1"} :
     \A data \in WithOptional([checkout_id |-> "cho_1"], "status", VendorStatuses) :
       SettersIn(_justifi_process_payment_data(
                   [state |-> state, provider_reference |-> reference], data).calls)
         = <<C3_SetterFor(Get(data, "status", ""))>>
  /\ (req.handler = "justifi_complete" /\ Len(http) = 2
      /\ http[2].response.status_code \in 1..399 /\ result.exc = "")
     => SettersIn(calls) = <<C3_SetterFor(Get(Unwrap(http[2].response.json), "status", ""))>>
  /\ (req.handler = "justifi_webhook" /\ calls # <<>>)
     => SettersIn(calls) =
          <<C3_SetterFor(IF WebhookOf(req, {"payment.failed"}) THEN "failed" ELSE "completed")>>
\* the complete endpoint processed a checkout of unknown status for a
\* transaction that was not in draft: set pending was invoked all the same
C3_UnknownStatusOnSettled ==
  /\ req.handler = "justifi_complete"
  /\ Len(http) = 2
  /\ Get(Unwrap(http[2].response.json), "status", "") = "requires_action"
  /\ SettersIn(calls) = <<"_set_pending">>
  /\ \E t \in TxIds : tx[t].state = "done"

\* the checkout ids stored in the provider_reference of transaction t when
\* its form was rendered
RenderedFor(t) ==
  {CheckoutIdNames[n] : n \in {m \in 1..Len(checkouts) : checkouts[m] = <<"Payment for", t>>}}

\* C7: a transaction whose checkout id was stored in provider_reference at
\* rendering time is, after any sequence of complete calls and webhooks,
\* still the transaction that the lookup by that checkout id (the one the
\* complete endpoint and the webhook handlers make) finds.
C7_CheckoutIdStillFindsTransaction ==
  \A t \in TxIds : \A checkout_id \in RenderedFor(t) :
    SearchTx(tx, checkout_id, FALSE) = t

\* C9: a webhook leaves a transaction that is done or cancelled as it is,
\* state and provider_reference, and invokes nothing on it.
C9_WebhookSkipsSettled ==
  [][req'.handler = "justifi_webhook"
     => \A t \in TxIds :
          tx[t].state \in {"done", "cancel"}
          => /\ tx'[t] = tx[t]
             /\ \A i \in 1..Len(calls') : calls'[i].tx # t]_vars
\* a payment.failed webhook arrived for a done transaction, or a
\* payment.succeeded one for a cancelled transaction
C9_WebhookForSettled ==
  \E t \in TxIds :
    /\ req.handler = "justifi_webhook"
    /\ result.out = [status |-> "ok"]
    /\ tx[t].provider_reference = EventId(req)
    /\ \/ WebhookOf(req, {"payment.failed"}) /\ tx[t].state = "done"
       \/ WebhookOf(req, {"payment.succeeded"}) /\ tx[t].state = "cancel"

\* C10: on a transaction that is done, no complete call and no webhook
\* invokes set pending, set error or set canceled.
C10_DoneIsAbsorbing ==
  [][\A t \in TxIds :
       tx[t].state = "done"
       => \A i \in 1..Len(calls') :
            calls'[i].tx = t
            => calls'[i].method \notin {"_set_pending", "_set_error", "_set_canceled"}]_vars

\* the web-component-token requests among the exchanges
C8_TokenRequests ==
  {i \in 1..Len(http) : http[i].request.url = <<"WEB_COMPONENT_TOKEN_URL">>}
\* C8: the web-component-token request for the checkout just created names
\* exactly the two resources write:checkout:<that checkout> and
\* write:tokenize:<the provider's sub-account id>, carries the bearer token
\* and no Sub-Account header, and the call returns a non-empty token or
\* raises ValidationError.
C8_TokenScopedToCheckout ==
  \A i \in C8_TokenRequests :
    LET checkout_id == Unwrap(http[i - 2].response.json).id IN
    /\ http[i - 2].request.url = <<"CHECKOUTS_URL">>
    /\ http[i].request.json.resources =
         << <<"write:checkout:", checkout_id>>,
            <<"write:tokenize:", provider.justifi_account_id>> >>
    /\ http[i - 1].request.url = <<"OAUTH_TOKEN_URL">>
    /\ http[i].request.headers["Authorization"]
         = <<"Bearer", http[i - 1].response.json.access_token>>
    /\ "Sub-Account" \notin DOMAIN http[i].request.headers
    /\ req.handler = "_get_specific_rendering_values"
    /\ \/ result.exc = "ValidationError"
       \/ result.exc = "" /\ result.out.auth_token # ""
                          /\ result.out.auth_token = http[i].response.json.access_token
\* the payment form was rendered with a web-component token
C8_TokenReturned ==
  /\ C8_TokenRequests # {}
  /\ result.exc = ""
  /\ result.out.auth_token = "wct_1"
\* the web-component-token call raised after its request was answered
C8_TokenRefused ==
  /\ C8_TokenRequests # {}
  /\ result.exc = "ValidationError"
  /\ http[Len(http)].response.status_code = 200

\* the pay actions the vendor accepted for the checkouts of POS order o
ActionsFor(o, actions, issued) ==
  {a \in actions :
     \E n \in 1..Len(issued) :
       CheckoutIdNames[n] = a.checkout_id /\ issued[n] = <<"POS Order", o>>}

\* C4: when the POS repeats a payment request for an order all of whose
\* earlier requests ended in an error result (a lost response included), the
\* vendor has accepted at most one pay action for that order afterwards.
C4_RetryAcceptsAtMostOneAction ==
  [][\A o \in Orders :
       (/\ req'.handler \in PosRequestHandlers
        /\ req'.pos_order_id = o
        /\ posOutcome[o] = {"error"})
       => Cardinality(ActionsFor(o, terminalActions', checkouts')) <= 1]_vars

\* the requests of the last handler to a terminal URL ending in `last`
TerminalRequests(last) ==
  LET sent == SelectSeq(http, LAMBDA x : /\ x.request.url[1] = "TERMINALS_URL"
                                         /\ x.request.url[Len(x.request.url)] = last)
  IN {sent[i].request : i \in 1..Len(sent)}
\* C5: every terminal-pay request carries a non-empty Idempotency-Key, the
\* one generated for that call; no two terminal-pay calls, of either
\* implementation, sent the same key; a terminal-cancel request carries no
\* Idempotency-Key.
C5_FreshIdempotencyKeys ==
  /\ \A r \in TerminalRequests("pay") :
       /\ "Idempotency-Key" \in DOMAIN r.headers
       /\ r.headers["Idempotency-Key"] # ""
       /\ payKeys # <<>>
       /\ r.headers["Idempotency-Key"] = payKeys[Len(payKeys)]
  /\ \A i, j \in 1..Len(payKeys) : i # j => payKeys[i] # payKeys[j]
  /\ \A r \in TerminalRequests("cancel") : "Idempotency-Key" \notin DOMAIN r.headers
\* two terminal-pay calls have been made, the later one by the model's
\* implementation
C5_TwoPayCalls ==
  /\ Len(payKeys) = 2
  /\ req.handler = "justifi_payment_request"
  /\ TerminalRequests("pay") # {}
\* a terminal-cancel request was sent after a terminal-pay call
C5_CancelAfterPay ==
  /\ Len(payKeys) >= 1
  /\ TerminalRequests("cancel") # {}

\* the token exchange of the last handler at i failed
TokenExchangeFailed(i) ==
  /\ http[i].request.url = <<"OAUTH_TOKEN_URL">>
  /\ \/ http[i].response.status_code # 200
     \/ Get(http[i].response.json, "access_token", "") = ""
\* C6: in the exchanges of every handler, each request other than a token
\* request (create-checkout, get-checkout, web-component-token,
\* terminal-pay, terminal-cancel) comes right after a token exchange of its
\* own, answered 200 with an access_token, and carries that token as its
\* bearer; a failed token exchange is the handler's last exchange and an
\* error was raised; with the client id or secret missing no request at all
\* is sent.
C6_EachCallAfterItsTokenExchange ==
  /\ \A i \in 1..Len(http) :
       http[i].request.url # <<"OAUTH_TOKEN_URL">>
       => /\ i > 1
          /\ http[i - 1].request.url = <<"OAUTH_TOKEN_URL">>
          /\ http[i - 1].request.json = [client_id |-> provider.justifi_client_id,
                                         client_secret |-> provider.justifi_client_secret]
          /\ ~TokenExchangeFailed(i - 1)
          /\ "Authorization" \in DOMAIN http[i].request.headers
          /\ http[i].request.headers["Authorization"]
               = <<"Bearer", http[i - 1].response.json.access_token>>
  /\ \A i \in 1..Len(http) :
       http[i].request.url = <<"OAUTH_TOKEN_URL">>
       => IF TokenExchangeFailed(i)
          THEN i = Len(http) /\ result.exc = "ValidationError"
          ELSE i < Len(http) => http[i + 1].request.url # <<"OAUTH_TOKEN_URL">>
  /\ (provider.justifi_client_id = "" \/ provider.justifi_client_secret = "")
     => /\ http = <<>>
        /\ req.handler = "_get_specific_rendering_values" => result.exc = "ValidationError"
\* a terminal-pay request went out with the token of its own exchange, which
\* is not the token the create-checkout request before it went out with
C6_PayWithOwnToken ==
  /\ req.handler \in PosRequestHandlers
  /\ Len(http) = 4
  /\ TerminalRequests("pay") # {}
  /\ http[2].request.headers["Authorization"] # http[4].request.headers["Authorization"]
\* the token exchange before the web-component-token request failed: the
\* rendering raised and that request was not sent
C6_SecondExchangeFailed ==
  /\ req.handler = "_get_specific_rendering_values"
  /\ Len(http) = 3
  /\ TokenExchangeFailed(3)
  /\ result.exc = "ValidationError"
\* a rendering without client id or secret raised before any request
C6_NoCredentialsNoRequest ==
  /\ req.handler = "_get_specific_rendering_values"
  /\ provider.justifi_client_id = "" \/ provider.justifi_client_secret = ""
  /\ http = <<>>
  /\ result.exc = "ValidationError"
\* a terminal-cancel request went out with the token of its exchange
C6_CancelWithToken ==
  /\ TerminalRequests("cancel") # {}
  /\ Len(http) = 2

\* C11: over any sequence of complete calls and webhooks, _post_process is
\* invoked at most once for a transaction: a handler invokes it at most once,
\* and never on a transaction it has been invoked on before.
C11_PostProcessAtMostOnce ==
  [][\A t \in TxIds :
       LET posts == {i \in 1..Len(calls') :
                       calls'[i].tx = t /\ calls'[i].method = "_post_process"}
       IN /\ Cardinality(posts) <= 1
          /\ t \in postProcessed => posts = {}]_vars

\* C12: delivering the same payment.succeeded or checkout.completed webhook
\* a second time, right after the first, changes no transaction and invokes
\* no state setter and no post-processing, with or without a
\* successful_payment_id in the event.
C12_SecondDeliveryDoesNothing ==
  [][(/\ WebhookOf(req, {"payment.succeeded", "checkout.completed"})
      /\ req' = req)
     => /\ tx' = tx
        /\ calls' = <<>>]_vars

\* the transaction a webhook's lookup by the event's checkout id finds, 0 if
\* none
FoundBy(r, txs) == IF EventId(r) = "" THEN 0 ELSE SearchTx(txs, EventId(r), FALSE)
\* the data of the last webhook's event
EventData(r) == Get(JsonLoads(r.payload), "data", EmptyDict)
\* the webhook's event data is an object, a provider is not disabled, and the
\* request's signature, if checked, is valid
Admitted(r) ==
  /\ EventData(r) # None
  /\ provider.state # "disabled"
  /\ \/ provider.justifi_webhook_secret = ""
     \/ r.signature = NoHeader
     \/ r.signature = HmacSha256Hex(provider.justifi_webhook_secret, r.payload)
\* C13: once a webhook request has passed the provider and signature checks:
\* for the transaction found by the event's checkout id, if it is neither
\* done nor cancelled, a payment.succeeded or checkout.completed event
\* invokes set done and leaves it done whatever status the event data holds,
\* and a payment.failed event invokes set error with the message made of the
\* event's error.message, 'Payment failed' when absent, and leaves it in
\* error; an event of any other type changes no transaction and is answered
\* {'status': 'ok'}.
C13_WebhookDispatch ==
  [][(req'.handler = "justifi_webhook" /\ Admitted(req'))
     => LET t == FoundBy(req', tx) IN
        /\ result'.out = [status |-> "ok"]
        /\ (/\ WebhookOf(req', {"payment.succeeded", "checkout.completed"})
            /\ t # 0 /\ tx[t].state \notin {"done", "cancel"})
           => /\ tx'[t].state = "done"
              /\ SettersIn(calls') = <<"_set_done">>
        /\ (/\ WebhookOf(req', {"payment.failed"})
            /\ t # 0 /\ tx[t].state \notin {"done", "cancel"})
           => /\ tx'[t].state = "error"
              /\ calls' = <<[tx |-> t, method |-> "_set_error",
                             message |-> <<"JustiFi: ",
                                           Get(Get(EventData(req'), "error", EmptyDict),
                                               "message", "Payment failed")>>]>>
        /\ ~WebhookOf(req', {"payment.succeeded", "checkout.completed", "payment.failed"})
           => tx' = tx /\ calls' = <<>>]_vars
\* a payment.succeeded event whose data says status 'failed' set its
\* transaction done
C13_SucceededWithFailedStatus ==
  \E t \in TxIds :
    /\ WebhookOf(req, {"payment.succeeded"})
    /\ Get(EventData(req), "status", "") = "failed"
    /\ tx[t].state = "done"
    /\ SettersIn(calls) = <<"_set_done">>
\* a payment.failed event with an error message set its transaction to error
C13_FailedWithMessage ==
  \E t \in TxIds :
    /\ WebhookOf(req, {"payment.failed"})
    /\ tx[t].state = "error"
    /\ calls # <<>>
    /\ calls[1].message = <<"JustiFi: ", "Card declined">>
\* an event of another type was answered ok
C13_OtherTypeIgnored ==
  /\ WebhookOf(req, {"payment.refunded"})
  /\ result.out = [status |-> "ok"]
  /\ \E t \in TxIds : tx[t].provider_reference = EventId(req)

\* no transaction's provider_reference is the checkout id or the payment id
\* of the last webhook's event
NoneReferredTo(r, txs) ==
  \A t \in TxIds :
    txs[t].provider_reference
      \notin {EventId(r), Get(EventData(r), "successful_payment_id", "")}
\* C14: a webhook request is always answered with a result dict, either
\* {'status': 'ok'} or {'status': 'error', 'message': ...} with a message,
\* also when an exception was raised while handling it; while the provider
\* is disabled the answer is the error 'Provider not found' and no
\* transaction changes or is called; an admitted event that refers to no
\* transaction is answered {'status': 'ok'} and no transaction changes or is
\* called.
C14_WebhookAlwaysAnswers ==
  [][req'.handler = "justifi_webhook"
     => /\ \/ result'.out = [status |-> "ok"]
           \/ /\ DOMAIN result'.out = {"status", "message"}
              /\ result'.out.status = "error"
              /\ result'.out.message # ""
        /\ provider.state = "disabled"
           => /\ result'.out = [status |-> "error", message |-> "Provider not found"]
              /\ tx' = tx /\ calls' = <<>>
        /\ (Admitted(req') /\ NoneReferredTo(req', tx))
           => /\ result'.out = [status |-> "ok"]
              /\ tx' = tx /\ calls' = <<>>]_vars
\* an exception raised while handling a webhook was answered with an error
\* dict
C14_ExceptionAnswered ==
  /\ req.handler = "justifi_webhook"
  /\ result.exc = "AttributeError"
  /\ result.out.status = "error"
\* a webhook was answered 'Provider not found'
C14_ProviderNotFound ==
  /\ req.handler = "justifi_webhook"
  /\ provider.state = "disabled"
  /\ result.out = [status |-> "error", message |-> "Provider not found"]
\* a webhook for a checkout no transaction has was answered ok
C14_NoTransactionFound ==
  /\ WebhookOf(req, {"payment.succeeded"})
  /\ Admitted(req)
  /\ EventId(req) # ""
  /\ NoneReferredTo(req, tx)
  /\ result.out = [status |-> "ok"]

\* C15: every call of the complete endpoint is answered with the redirect to
\* /payment/status: without a checkout_id, for an unknown one, when the
\* verification with the vendor failed, when another exception was raised,
\* and when the payment data was processed.
C15_CompleteAlwaysRedirects ==
  req.handler = "justifi_complete" => result.out = Redirect
\* an exception other than the failed verification was raised in a complete
\* call, which redirected
C15_ExceptionRedirected ==
  /\ req.handler = "justifi_complete"
  /\ result.exc = "TypeError"
  /\ result.out = Redirect
\* the verification with the vendor failed in a complete call, which
\* redirected
C15_VerificationFailureRedirected ==
  /\ req.handler = "justifi_complete"
  /\ result.exc = "ValidationError"
  /\ result.out = Redirect

\* the last exchange of a handler is an answered GET of checkout id
VerifiedCheckout(exchanges, id) ==
  /\ exchanges # <<>>
  /\ LET last == exchanges[Len(exchanges)] IN
     /\ last.request.method = "GET"
     /\ last.request.url = <<"CHECKOUTS_URL", id>>
     /\ last.response.status_code \in 1..399
\* C16: a complete call without checkout_id, or with one no transaction has
\* as provider_reference, sends no request and changes and calls no
\* transaction; a complete call changes or calls a transaction only if its
\* last exchange is the get-checkout request for the submitted id, answered
\* without error, and then no other transaction than the one with that
\* provider_reference; if that request failed no transaction changes.
C16_CompleteVerifiesFirst ==
  [][req'.handler = "justifi_complete"
     => LET id == Get(req'.kwargs, "checkout_id", "")
            t == IF id = "" THEN 0 ELSE SearchTx(tx, id, FALSE)
        IN /\ t = 0 => http' = <<>> /\ tx' = tx /\ calls' = <<>>
           /\ (tx' # tx \/ calls' # <<>>)
              => /\ VerifiedCheckout(http', id)
                 /\ \A u \in TxIds \ {t} : tx'[u] = tx[u]
                 /\ \A i \in 1..Len(calls') : calls'[i].tx = t
           /\ ~VerifiedCheckout(http', id) => tx' = tx /\ calls' = <<>>]_vars
\* a complete call processed the checkout the vendor returned
C16_ProcessedAfterVerification ==
  /\ req.handler = "justifi_complete"
  /\ VerifiedCheckout(http, Get(req.kwargs, "checkout_id", ""))
  /\ calls # <<>>
\* a complete call for a transaction's checkout got an error from the vendor
C16_VerificationFailed ==
  /\ req.handler = "justifi_complete"
  /\ Len(http) = 2
  /\ http[2].response.status_code = 404
  /\ calls = <<>>

\* the id of the checkout a create-checkout exchange returned, "" if none
CreatedId(x) ==
  IF /\ x.request.url = <<"CHECKOUTS_URL">> /\ x.request.method = "POST"
     /\ x.response.status_code \in 1..399
  THEN Get(Unwrap(x.response.json), "id", "")
  ELSE ""
\* C17: in a POS payment request, of either implementation, a terminal-pay
\* request is sent only after a create-checkout request of the same call was
\* answered with a non-empty id; it names that checkout id and the terminal
\* id configured on the payment method, which is not empty; a success result
\* follows a terminal-pay request and reports that checkout id and that
\* terminal id; when the terminal-pay request is answered with a status of
\* 400 or more, or not at all, the result is an error dict and no success.
C17_TerminalPayAfterCheckout ==
  req.handler \in PosRequestHandlers
  => LET pays == {i \in 1..Len(http) :
                    /\ http[i].request.url[1] = "TERMINALS_URL"
                    /\ http[i].request.url[Len(http[i].request.url)] = "pay"}
     IN /\ \A i \in pays :
             LET terminal_id == PosPaymentMethods[req.payment_method_id].justifi_terminal_id
             IN /\ \E j \in 1..(i - 1) :
                     /\ CreatedId(http[j]) # ""
                     /\ http[i].request.json.checkout_id = CreatedId(http[j])
                     /\ "success" \in DOMAIN result.out
                        => result.out.checkout_id = CreatedId(http[j])
                /\ terminal_id # ""
                /\ TerminalOf(http[i].request) = terminal_id
                /\ "success" \in DOMAIN result.out
                   => /\ result.out.success
                      /\ result.out.terminal_id = terminal_id
                /\ (http[i].response.status_code = 0 \/ http[i].response.status_code >= 400)
                   => /\ "error" \in DOMAIN result.out
                      /\ "success" \notin DOMAIN result.out
        /\ Cardinality(pays) <= 1
        /\ "success" \in DOMAIN result.out => pays # {}
\* a POS payment request sent the checkout to the terminal and reported
\* success
C17_SentToTerminal ==
  /\ req.handler \in PosRequestHandlers
  /\ TerminalRequests("pay") # {}
  /\ "success" \in DOMAIN result.out
  /\ result.out.checkout_id # ""
\* the terminal-pay request of a POS payment request was answered with an
\* error status
C17_TerminalPayRefused ==
  /\ req.handler \in PosRequestHandlers
  /\ \E i \in 1..Len(http) :
       /\ http[i].request.url[1] = "TERMINALS_URL"
       /\ http[i].response.status_code >= 400
  /\ "error" \in DOMAIN result.out
\* create-checkout was answered without an id: no terminal-pay request
C17_NoIdNoPay ==
  /\ req.handler \in PosRequestHandlers
  /\ Len(http) = 2
  /\ http[2].response.status_code = 201
  /\ "error" \in DOMAIN result.out

\* the state _justifi_process_payment_data leaves a draft transaction in for
\* a checkout of the given status
AppliedState(status) ==
  _justifi_process_payment_data([state |-> "draft", provider_reference |-> ""],
                                [status |-> status]).rec.state
\* C18: in every status result of a POS payment-status call, of either
\* implementation, at most one of is_paid, is_pending and is_failed is set,
\* and for the status the vendor reported is_paid is set exactly when
\* _justifi_process_payment_data sets done for it, is_pending exactly when
\* it sets pending, is_failed exactly when it sets error or cancel.
C18_FlagsAgreeWithProcessing ==
  (/\ req.handler \in {"payment_status", "justifi_payment_status"}
   /\ "success" \in DOMAIN result.out)
  => LET r == result.out
         state == AppliedState(r.status)
     IN /\ Cardinality({f \in {"is_paid", "is_pending", "is_failed"} : r[f]}) <= 1
        /\ r.is_paid <=> state = "done"
        /\ r.is_pending <=> state = "pending"
        /\ r.is_failed <=> state \in {"error", "cancel"}

====
